---- MODULE Spec2Model ----
(***************************************************************************)
(* USBtoSerial (LUFA, low-latency adaptation): the UART -> USB relay with  *)
(* its ring buffer and adaptive flush deadline, the USB -> UART relay, and *)
(* the 1200-baud-touch bootloader trigger.                                 *)
(*                                                                         *)
(* The main loop is a sequence of steps (pc).  The USART1 RX interrupt     *)
(* (ISR_BLOCK, so atomic) may run between any two of them once the         *)
(* line-encoding handler has switched the receiver interrupt on.  The CDC  *)
(* class driver calls the two notification handlers while it processes a   *)
(* control request of the host in the USB task of the main loop; the       *)
(* line-encoding handler proceeds one group of register writes at a time.  *)
(***************************************************************************)
EXTENDS Integers, Sequences, FiniteSets, TLC

\* ------------------------------------------------------------------ bounds
\* The ring buffer holds 1024 bytes in the program (sizeof
\* USARTtoUSB_Buffer_Data); the model scales the capacity down so that full,
\* more-than-half-full and wrap-around all happen within a few UART bytes.
BufferSize == 3
\* UART bytes that arrive in one behaviour of Spec (accepted or discarded).
MaxRx == 4
\* Send attempts of CDC_Device_SendByte that report an error in one behaviour.
MaxSendErrors == 1
\* Notifications of the host in one behaviour of Spec.
MaxCtl == 1
\* UART bytes and notifications in one behaviour of SpecBoot.
MaxRxBoot == 1
MaxCtlBoot == 3
\* Bytes of the host in one behaviour of SpecEgress.
MaxHost == 3

\* ---------------------------------------------------------------- constants
MAGIC_KEY == 30583
BOOT_BAUD == 1200
Word16 == 65536
Word8 == 256

\* The value CDC_Device_ReceiveByte returns for the k-th byte of the host:
\* the relay never looks at the value of a byte, so the k-th byte carries k
\* and any reordering, loss or repetition shows.
HostByte(k) == k % Word8
\* Values the free-running 16-bit counter TCNT1 is observed at: small ones
\* and the ones past the 8-bit and the 16-bit edge of TCNT1 << 2.
TimerSamples == {0, 1, 64, 16385}
\* Control-line masks (bit 0 DTR, bit 1 RTS) the host sends.
ControlLines == {0, 1, 2}
\* What the two RAM words may hold at startup.  The word at RAMEND-1 is the
\* return address of main() (line 238), which is not the magic key.
RamWords == {0, MAGIC_KEY, 4660}
\* The two RAM words the trigger touches: MAGIC_KEY_POS (0x0800) and RAMEND-1.
RamLocs == {"MAGIC_KEY_POS", "RAMEND_1"}
\* UCSR1B as the line-encoding handler leaves it.
UsartOn == {"RXCIE1", "TXEN1", "RXEN1"}
\* Line encodings the host sets: 1200 baud 8N1 and 9600 baud 7E2.
LineEncodings ==
    {[BaudRateBPS |-> BOOT_BAUD, ParityType |-> "None",
      CharFormat |-> "OneStopBit", DataBits |-> 8],
     [BaudRateBPS |-> 9600, ParityType |-> "Even",
      CharFormat |-> "TwoStopBits", DataBits |-> 7]}

\* ------------------------------------------------------------------- state
VARIABLES
    pc,                 \* position of main() in its for(;;) loop
    ReceivedByte,       \* main: result of CDC_Device_ReceiveByte
    BufferCount,        \* main: uint16_t BufferCount
    cmpRead,            \* main: the operand of TCNT1 >= USART_Timeout read first
    sendReady,          \* main: the last result of Serial_IsSendReady()
    USARTtoUSB_Buffer,  \* RingBuffer_t with its data: [In, Out, Count, Data]
    USART_Timeout,      \* static volatile uint8_t USART_Timeout
    TCNT1,              \* 16-bit timer 1 counter
    USB_DeviceState,    \* LUFA device state
    UCSR1B,             \* USART1 control register B, as the set of its bits
    updatedLUFAbootloader,  \* static bool _updatedLUFAbootloader
    ram,                \* the RAM words at MAGIC_KEY_POS and RAMEND-1
    BaudRateBPS,        \* State.LineEncoding.BaudRateBPS
    HostToDevice,       \* State.ControlLineStates.HostToDevice
    wdtEnabled,         \* the watchdog: armed (wdt_enable) or not (wdt_disable)
    PORTD3,             \* bit 3 of PORTD: the TX line is held high
    UCSR1A,             \* USART1 control register A, as the set of its bits
    UCSR1C,             \* USART1 control register C, as the set of its bits
    UBRR1,              \* USART1 baud rate register
    ConfigMask,         \* line-encoding handler: uint8_t ConfigMask
    lePc,               \* position of the line-encoding handler
    accepted,           \* history: bytes the interrupt put into the buffer
    sent,               \* history: bytes CDC_Device_SendByte took with NoError
    uartRx,             \* history: number of RX interrupts served
    rxConfigured,       \* history: number of them with the device configured
    sendErrors,         \* history: number of send attempts that failed
    flush,              \* history: the flush of this main-loop iteration
    usbRx,              \* history: bytes CDC_Device_ReceiveByte returned
    uartTx,             \* history: bytes Serial_SendByte wrote to UDR1
    ctlCount,           \* history: number of notifications handled
    trigger,            \* history: the arming episode of the trigger
    rxLimit,            \* input: UART bytes that arrive in this behaviour; 0
                        \* stands for an endless stream, with send errors
                        \* without limit, whose history is not kept
    ctlLimit,           \* input: notifications the host sends in this behaviour
    hostLimit           \* input: bytes of the host in this behaviour; 0 stands
                        \* for an endless stream whose history is not kept

mainVars == <<pc, ReceivedByte, BufferCount, cmpRead>>
ringVars == <<USARTtoUSB_Buffer, USART_Timeout, TCNT1>>
usartVars == <<PORTD3, UCSR1A, UCSR1C, UBRR1, ConfigMask, lePc>>
bootVars == <<UCSR1B, updatedLUFAbootloader, ram, BaudRateBPS, HostToDevice,
              wdtEnabled, ctlCount, trigger, usartVars>>
rxCounts == <<uartRx, rxConfigured>>
histVars == <<accepted, sent, rxCounts, sendErrors, flush>>
egressVars == <<sendReady, usbRx, uartTx>>
limits == <<rxLimit, ctlLimit, hostLimit>>

vars == <<mainVars, ringVars, USB_DeviceState, bootVars, histVars, egressVars,
          limits>>

\* ------------------------------------------------------------- ring buffer
\* LUFA's RingBuffer_t over USARTtoUSB_Buffer_Data: the cursors are indices
\* into the data block, Count is the number of stored bytes.
RingBuffer_InitBuffer ==
    [In |-> 0, Out |-> 0, Count |-> 0, Data |-> [i \in 0..(BufferSize - 1) |-> 0]]

RingBuffer_GetCount(b) == b.Count

RingBuffer_IsFull(b) == RingBuffer_GetCount(b) = BufferSize

RingBuffer_Insert(b, x) ==
    IF b.Count = BufferSize
    THEN b
    ELSE [b EXCEPT !.Data[b.In] = x,
                   !.In = (b.In + 1) % BufferSize,
                   !.Count = (b.Count + 1) % Word16]

RingBuffer_Peek(b) == b.Data[b.Out]

RingBuffer_Remove(b) ==
    [b EXCEPT !.Out = (b.Out + 1) % BufferSize,
              !.Count = (b.Count - 1) % Word16]

\* The stored bytes, oldest first (the Count slots from the read cursor on).
Contents(b) ==
    [i \in 1..(IF b.Count <= BufferSize THEN b.Count ELSE 0) |->
        b.Data[(b.Out + i - 1) % BufferSize]]

\* No flush is under way in this iteration.
NoFlush ==
    [state |-> "idle", snap |-> <<>>, k |-> 0, rx |-> FALSE, n |-> 0, acc0 |-> 0]

\* A history of the UART stream after one more event, when it is kept.
Logged(h, x) == IF rxLimit = 0 THEN h ELSE Append(h, x)
Counted(n) == IF rxLimit = 0 THEN n ELSE n + 1

\* ------------------------------------------------------------------- Init
\* The state when main() enters its loop: SetupHardware has disabled the
\* watchdog and resolved the bootloader generation, the ring buffer is
\* initialised, the statics are zero, the USART is still off.
InitWith(rxLim, ctlLim, hostLim, keyWords, endWords, generations) ==
    /\ pc = "Receive"
    /\ ReceivedByte = -1
    /\ BufferCount = 0
    /\ cmpRead = 0
    /\ USARTtoUSB_Buffer = RingBuffer_InitBuffer
    /\ USART_Timeout = 0
    /\ TCNT1 = 0
    /\ USB_DeviceState = "Unattached"
    /\ UCSR1B = {}
    /\ updatedLUFAbootloader \in generations
    /\ ram \in [RamLocs -> RamWords]
    /\ ram["MAGIC_KEY_POS"] \in keyWords
    /\ ram["RAMEND_1"] \in endWords
    /\ BaudRateBPS = 0
    /\ HostToDevice = 0
    /\ wdtEnabled = FALSE
    /\ PORTD3 = FALSE
    /\ UCSR1A = {}
    /\ UCSR1C = {}
    /\ UBRR1 = <<"reset", 0>>
    /\ ConfigMask = {}
    /\ lePc = "idle"
    /\ accepted = <<>>
    /\ sent = <<>>
    /\ uartRx = 0
    /\ rxConfigured = 0
    /\ sendErrors = 0
    /\ flush = NoFlush
    /\ ctlCount = 0
    /\ trigger = [state |-> "idle", ram0 |-> ram, saved |-> 0, arms |-> 0,
                  ever |-> FALSE]
    /\ rxLimit = rxLim
    /\ ctlLimit = ctlLim
    /\ hostLimit = hostLim
    /\ sendReady = FALSE
    /\ usbRx = <<>>
    /\ uartTx = <<>>

Init == InitWith(MaxRx, MaxCtl, 0, {0}, {0}, {FALSE})

InitBoot ==
    InitWith(MaxRxBoot, MaxCtlBoot, 0, RamWords, RamWords \ {MAGIC_KEY}, BOOLEAN)

InitEgress == InitWith(MaxRxBoot, MaxCtl, MaxHost, {0}, {0}, {FALSE})

\* ------------------------------------------------------ main(), USB -> UART
\* Line 109-113: CDC_Device_ReceiveByte returns a byte from the host or a
\* negative value when none is waiting.
MainReceive ==
    /\ pc = "Receive"
    /\ \E r \in {HostByte(Len(usbRx) + 1), -1} :
        /\ r >= 0 => (hostLimit = 0 \/ Len(usbRx) < hostLimit)
        /\ ReceivedByte' = r
        /\ usbRx' = IF r >= 0 /\ hostLimit # 0 THEN Append(usbRx, r) ELSE usbRx
        /\ pc' = IF r < 0 THEN "GetCount" ELSE "WaitSend"
    /\ UNCHANGED <<BufferCount, cmpRead, ringVars, USB_DeviceState, bootVars,
                   histVars, sendReady, uartTx, limits>>

\* Mutant of MainWaitSend: the byte is written without waiting for the UART.
MainWaitSend_NoWait ==
    /\ pc = "WaitSend"
    /\ \E ready \in BOOLEAN :
        /\ sendReady' = ready
        /\ pc' = "SerialSend"
    /\ UNCHANGED <<ReceivedByte, BufferCount, cmpRead, ringVars,
                   USB_DeviceState, bootVars, histVars, usbRx, uartTx, limits>>

\* Line 114: while (!Serial_IsSendReady()) ; one test of the busy-wait, which
\* ends when the UART reports transmit-ready.
MainWaitSend ==
    /\ pc = "WaitSend"
    /\ \E ready \in BOOLEAN :
        /\ sendReady' = ready
        /\ pc' = IF ready THEN "SerialSend" ELSE "WaitSend"
    /\ UNCHANGED <<ReceivedByte, BufferCount, cmpRead, ringVars,
                   USB_DeviceState, bootVars, histVars, usbRx, uartTx, limits>>

\* Line 115: Serial_SendByte(ReceivedByte) writes the low 8 bits to UDR1,
\* then back to the receive test.
MainSerialSend ==
    /\ pc = "SerialSend"
    /\ uartTx' = IF hostLimit # 0
                 THEN Append(uartTx, ReceivedByte % Word8) ELSE uartTx
    /\ sendReady' = FALSE
    /\ pc' = "Receive"
    /\ UNCHANGED <<ReceivedByte, BufferCount, cmpRead, ringVars,
                   USB_DeviceState, bootVars, histVars, usbRx, limits>>

\* ------------------------------------------------------ main(), UART -> USB
\* Line 118: the count snapshot.
MainGetCount ==
    /\ pc = "GetCount"
    /\ BufferCount' = RingBuffer_GetCount(USARTtoUSB_Buffer)
    /\ pc' = "FlushTest"
    /\ UNCHANGED <<ReceivedByte, cmpRead, ringVars, USB_DeviceState, bootVars,
                   histVars, egressVars, limits>>

\* Mutant of FlushDue: the half-full test includes exactly half.
FlushDue_HalfInclusive(count, timer, deadline) ==
    \/ (count # 0 /\ timer >= deadline)
    \/ count >= BufferSize \div 2

\* Mutant of FlushDue: only the half-full rule, the deadline forgotten.
FlushDue_HalfOnly(count, timer, deadline) == count > BufferSize \div 2

\* Line 119-120: the condition of the if, on the values it read.
FlushDue(count, timer, deadline) ==
    \/ (count # 0 /\ timer >= deadline)
    \/ count > BufferSize \div 2

\* Line 119: BufferCount && ... short-circuits on an empty snapshot; otherwise
\* the two volatile operands of >= are read one after the other, in the order
\* the compiler chose, and the interrupt may run between the two reads.
MainFlushTest ==
    /\ pc = "FlushTest"
    /\ IF BufferCount = 0
       THEN /\ pc' = IF FlushDue(BufferCount, 0, 0) THEN "Select" ELSE "USBTask"
            /\ cmpRead' = cmpRead
       ELSE \/ (pc' = "ReadTimeout" /\ cmpRead' = TCNT1)
            \/ (pc' = "ReadTimer" /\ cmpRead' = USART_Timeout)
    /\ UNCHANGED <<ReceivedByte, BufferCount, ringVars, USB_DeviceState,
                   bootVars, histVars, egressVars, limits>>

\* Line 119-121: the second operand is read and the if decides.
MainFlushDecide ==
    /\ pc \in {"ReadTimeout", "ReadTimer"}
    /\ LET timer == IF pc = "ReadTimeout" THEN cmpRead ELSE TCNT1
           deadline == IF pc = "ReadTimeout" THEN USART_Timeout ELSE cmpRead
       IN  pc' = IF FlushDue(BufferCount, timer, deadline)
                 THEN "Select" ELSE "USBTask"
    /\ cmpRead' = 0
    /\ UNCHANGED <<ReceivedByte, BufferCount, ringVars, USB_DeviceState,
                   bootVars, histVars, egressVars, limits>>

\* Mutant of MainSelectEndpoint: an endpoint that is not ready is flushed to
\* all the same.
MainSelectEndpoint_IgnoresNotReady ==
    /\ pc = "Select"
    /\ \E Endpoint_IsINReady \in BOOLEAN :
        /\ pc' = "While"
        /\ flush' = IF Endpoint_IsINReady
                    THEN [state |-> "active",
                          snap |-> Contents(USARTtoUSB_Buffer),
                          k |-> 0, rx |-> FALSE, n |-> BufferCount,
                          acc0 |-> Len(accepted)]
                    ELSE [NoFlush EXCEPT !.state = "notready"]
    /\ UNCHANGED <<ReceivedByte, BufferCount, cmpRead, ringVars,
                   USB_DeviceState, bootVars, accepted, sent, rxCounts,
                   sendErrors, egressVars, limits>>

\* Line 122-124: select the IN endpoint and ask whether it is ready; a
\* ready endpoint starts the flush loop, one that is not skips it.
MainSelectEndpoint ==
    /\ pc = "Select"
    /\ \E Endpoint_IsINReady \in BOOLEAN :
        IF Endpoint_IsINReady
        THEN /\ pc' = "While"
             /\ flush' = [state |-> "active",
                          snap |-> Contents(USARTtoUSB_Buffer),
                          k |-> 0, rx |-> FALSE, n |-> BufferCount,
                          acc0 |-> Len(accepted)]
        ELSE /\ pc' = "USBTask"
             /\ flush' = [NoFlush EXCEPT !.state = "notready"]
    /\ UNCHANGED <<ReceivedByte, BufferCount, cmpRead, ringVars,
                   USB_DeviceState, bootVars, accepted, sent, rxCounts,
                   sendErrors, egressVars, limits>>

\* Mutant of MainWhile: while (BufferCount), the decrement forgotten.
MainWhile_NoDecrement ==
    /\ pc = "While"
    /\ IF BufferCount # 0
       THEN pc' = "SendByte" /\ flush' = flush
       ELSE pc' = "USBTask" /\ flush' = [flush EXCEPT !.state = "done"]
    /\ UNCHANGED <<ReceivedByte, BufferCount, cmpRead, ringVars,
                   USB_DeviceState, bootVars, accepted, sent, rxCounts,
                   sendErrors, egressVars, limits>>

\* Mutant of MainWhile: the loop tests the live count of the buffer instead
\* of the snapshot.
MainWhile_LiveCount ==
    /\ pc = "While"
    /\ IF RingBuffer_GetCount(USARTtoUSB_Buffer) # 0
       THEN pc' = "SendByte" /\ flush' = flush
       ELSE pc' = "USBTask" /\ flush' = [flush EXCEPT !.state = "done"]
    /\ BufferCount' = (BufferCount - 1) % Word16
    /\ UNCHANGED <<ReceivedByte, cmpRead, ringVars, USB_DeviceState, bootVars,
                   accepted, sent, rxCounts, sendErrors, egressVars, limits>>

\* Line 127: while (BufferCount--), on a uint16_t.
MainWhile ==
    /\ pc = "While"
    /\ IF BufferCount # 0
       THEN pc' = "SendByte" /\ flush' = flush
       ELSE pc' = "USBTask" /\ flush' = [flush EXCEPT !.state = "done"]
    /\ BufferCount' = (BufferCount - 1) % Word16
    /\ UNCHANGED <<ReceivedByte, cmpRead, ringVars, USB_DeviceState, bootVars,
                   accepted, sent, rxCounts, sendErrors, egressVars, limits>>

\* Mutant of MainSendByte: the failed byte is dequeued before the break.
MainSendByte_DequeuesOnError ==
    /\ pc = "SendByte"
    /\ \/ /\ sent' = Logged(sent, RingBuffer_Peek(USARTtoUSB_Buffer))
          /\ pc' = "Remove"
          /\ flush' = [flush EXCEPT !.k = @ + 1]
          /\ UNCHANGED <<sendErrors, USARTtoUSB_Buffer>>
       \/ /\ rxLimit = 0 \/ sendErrors < MaxSendErrors
          /\ sendErrors' = Counted(sendErrors)
          /\ pc' = "USBTask"
          /\ USARTtoUSB_Buffer' = RingBuffer_Remove(USARTtoUSB_Buffer)
          /\ flush' = [flush EXCEPT !.state = "failed"]
          /\ UNCHANGED sent
    /\ UNCHANGED <<ReceivedByte, BufferCount, cmpRead, USART_Timeout, TCNT1,
                   USB_DeviceState, bootVars, accepted, rxCounts, egressVars, limits>>

\* Line 130-134: offer the peeked byte; any result but NoError breaks.
MainSendByte ==
    /\ pc = "SendByte"
    /\ \/ /\ sent' = Logged(sent, RingBuffer_Peek(USARTtoUSB_Buffer))
          /\ pc' = "Remove"
          /\ flush' = [flush EXCEPT !.k = @ + 1]
          /\ UNCHANGED sendErrors
       \/ /\ rxLimit = 0 \/ sendErrors < MaxSendErrors
          /\ sendErrors' = Counted(sendErrors)
          /\ pc' = "USBTask"
          /\ flush' = [flush EXCEPT !.state = "failed"]
          /\ UNCHANGED sent
    /\ UNCHANGED <<ReceivedByte, BufferCount, cmpRead, ringVars,
                   USB_DeviceState, bootVars, accepted, rxCounts, egressVars, limits>>

\* Line 135.
MainRemove ==
    /\ pc = "Remove"
    /\ USARTtoUSB_Buffer' = RingBuffer_Remove(USARTtoUSB_Buffer)
    /\ pc' = "While"
    /\ UNCHANGED <<ReceivedByte, BufferCount, cmpRead, USART_Timeout, TCNT1,
                   USB_DeviceState, bootVars, histVars, egressVars, limits>>

\* Line 140-141: the USB stack tasks with no notification to deliver, then
\* the next iteration.
MainUSBTask ==
    /\ pc = "USBTask"
    /\ lePc = "idle"
    /\ pc' = "Receive"
    /\ flush' = NoFlush
    /\ UNCHANGED <<ReceivedByte, BufferCount, cmpRead, ringVars,
                   USB_DeviceState, bootVars, accepted, sent, rxCounts,
                   sendErrors, egressVars, limits>>

\* -------------------------------------------------------------- interrupt
\* Line 203: the relay never looks at the value of a byte, so the k-th byte
\* on the wire carries k: any reordering, loss or repetition shows.
WireByte(k) == k % Word8

\* Line 213: TCNT1 << 2 in 16-bit unsigned arithmetic, stored in a uint8_t.
TimeoutOf(t) == ((t * 4) % Word16) % Word8

\* Mutant of ISR_USART1_RX: the timer is reset before the discard test.
ISR_ResetsTimerFirst ==
    /\ {"RXCIE1", "RXEN1"} \subseteq UCSR1B
    /\ rxLimit = 0 \/ uartRx < rxLimit
    /\ uartRx' = Counted(uartRx)
    /\ rxConfigured' = IF USB_DeviceState = "Configured"
                       THEN Counted(rxConfigured) ELSE rxConfigured
    /\ TCNT1' = 0
    /\ LET UDR1 == WireByte(uartRx + 1) IN
        IF \/ USB_DeviceState # "Configured"
           \/ RingBuffer_IsFull(USARTtoUSB_Buffer)
        THEN UNCHANGED <<USARTtoUSB_Buffer, USART_Timeout, accepted, flush>>
        ELSE /\ USART_Timeout' =
                    IF RingBuffer_GetCount(USARTtoUSB_Buffer) # 0
                    THEN TimeoutOf(TCNT1) ELSE USART_Timeout
             /\ USARTtoUSB_Buffer' = RingBuffer_Insert(USARTtoUSB_Buffer, UDR1)
             /\ accepted' = Logged(accepted, UDR1)
             /\ flush' = IF flush.state \in {"active", "failed", "done"}
                         THEN [flush EXCEPT !.rx = TRUE] ELSE flush
    /\ UNCHANGED <<mainVars, USB_DeviceState, bootVars, sent, sendErrors,
                   egressVars, limits>>

\* Mutant of ISR_USART1_RX: a byte is discarded once the buffer is more than
\* half full.
ISR_DropsAboveHalf ==
    /\ {"RXCIE1", "RXEN1"} \subseteq UCSR1B
    /\ rxLimit = 0 \/ uartRx < rxLimit
    /\ uartRx' = Counted(uartRx)
    /\ rxConfigured' = IF USB_DeviceState = "Configured"
                       THEN Counted(rxConfigured) ELSE rxConfigured
    /\ LET UDR1 == WireByte(uartRx + 1) IN
        IF \/ USB_DeviceState # "Configured"
           \/ RingBuffer_GetCount(USARTtoUSB_Buffer) > BufferSize \div 2
        THEN UNCHANGED <<ringVars, accepted, flush>>
        ELSE /\ USART_Timeout' =
                    IF RingBuffer_GetCount(USARTtoUSB_Buffer) # 0
                    THEN TimeoutOf(TCNT1) ELSE USART_Timeout
             /\ TCNT1' = 0
             /\ USARTtoUSB_Buffer' = RingBuffer_Insert(USARTtoUSB_Buffer, UDR1)
             /\ accepted' = Logged(accepted, UDR1)
             /\ flush' = IF flush.state \in {"active", "failed", "done"}
                         THEN [flush EXCEPT !.rx = TRUE] ELSE flush
    /\ UNCHANGED <<mainVars, USB_DeviceState, bootVars, sent, sendErrors,
                   egressVars, limits>>

\* Mutant of ISR_USART1_RX: the deadline is rearmed on every accepted byte.
ISR_AlwaysRearms ==
    /\ {"RXCIE1", "RXEN1"} \subseteq UCSR1B
    /\ rxLimit = 0 \/ uartRx < rxLimit
    /\ uartRx' = Counted(uartRx)
    /\ rxConfigured' = IF USB_DeviceState = "Configured"
                       THEN Counted(rxConfigured) ELSE rxConfigured
    /\ LET UDR1 == WireByte(uartRx + 1) IN
        IF \/ USB_DeviceState # "Configured"
           \/ RingBuffer_IsFull(USARTtoUSB_Buffer)
        THEN UNCHANGED <<ringVars, accepted, flush>>
        ELSE /\ USART_Timeout' =
                    IF TRUE
                    THEN TimeoutOf(TCNT1) ELSE USART_Timeout
             /\ TCNT1' = 0
             /\ USARTtoUSB_Buffer' = RingBuffer_Insert(USARTtoUSB_Buffer, UDR1)
             /\ accepted' = Logged(accepted, UDR1)
             /\ flush' = IF flush.state \in {"active", "failed", "done"}
                         THEN [flush EXCEPT !.rx = TRUE] ELSE flush
    /\ UNCHANGED <<mainVars, USB_DeviceState, bootVars, sent, sendErrors,
                   egressVars, limits>>

\* Line 201-219.  The interrupt is raised only while UCSR1B has the receiver
\* and its interrupt on (line 336).
ISR_USART1_RX ==
    /\ {"RXCIE1", "RXEN1"} \subseteq UCSR1B
    /\ rxLimit = 0 \/ uartRx < rxLimit
    /\ uartRx' = Counted(uartRx)
    /\ rxConfigured' = IF USB_DeviceState = "Configured"
                       THEN Counted(rxConfigured) ELSE rxConfigured
    /\ LET UDR1 == WireByte(uartRx + 1) IN
        IF \/ USB_DeviceState # "Configured"
           \/ RingBuffer_IsFull(USARTtoUSB_Buffer)
        THEN UNCHANGED <<ringVars, accepted, flush>>
        ELSE /\ USART_Timeout' =
                    IF RingBuffer_GetCount(USARTtoUSB_Buffer) # 0
                    THEN TimeoutOf(TCNT1) ELSE USART_Timeout
             /\ TCNT1' = 0
             /\ USARTtoUSB_Buffer' = RingBuffer_Insert(USARTtoUSB_Buffer, UDR1)
             /\ accepted' = Logged(accepted, UDR1)
             /\ flush' = IF flush.state \in {"active", "failed", "done"}
                         THEN [flush EXCEPT !.rx = TRUE] ELSE flush
    /\ UNCHANGED <<mainVars, USB_DeviceState, bootVars, sent, sendErrors,
                   egressVars, limits>>

\* ------------------------------------------------------ bootloader trigger
\* Mutant of MagicKeyPos: the capability flag is ignored.
MagicKeyPos_IgnoresFlag(updated) == "MAGIC_KEY_POS"

\* Line 231-243: the location of the magic key.
MagicKeyPos(updated) == IF updated THEN "RAMEND_1" ELSE "MAGIC_KEY_POS"

\* Line 246: the port is at the trigger baud rate and DTR (bit 0) is low.
TriggerCondition(baud, lines) == baud = BOOT_BAUD /\ lines % 2 = 0

\* Line 248-256 and 268-277: the two RAM words after the handler.
RamAfterReset(updated, baud, lines, r) ==
    LET pos == MagicKeyPos(updated)
    IN  IF TriggerCondition(baud, lines)
        THEN LET backed == IF pos # "RAMEND_1"
                           THEN [r EXCEPT !["RAMEND_1"] = r[pos]] ELSE r
             IN  [backed EXCEPT ![pos] = MAGIC_KEY]
        ELSE IF pos # "RAMEND_1"
             THEN [r EXCEPT ![pos] = r["RAMEND_1"]]
             ELSE [r EXCEPT ![pos] = 0]

\* Mutant of WatchdogAfterReset: the watchdog is armed on the baud rate
\* alone, whatever DTR.
WatchdogAfterReset_IgnoresDTR(baud, lines) == baud = BOOT_BAUD

\* Line 257 and 266: wdt_enable(WDTO_120MS) or wdt_disable().
WatchdogAfterReset(baud, lines) == TriggerCondition(baud, lines)

\* Line 224-279, on the line encoding and control lines the driver stored.
handleResetToBootloader(baud, lines) ==
    /\ ram' = RamAfterReset(updatedLUFAbootloader, baud, lines, ram)
    /\ wdtEnabled' = WatchdogAfterReset(baud, lines)
    /\ ctlCount' = ctlCount + 1
    /\ trigger' =
        IF TriggerCondition(baud, lines)
        THEN IF trigger.state = "armed"
             THEN [trigger EXCEPT !.arms = IF @ < 2 THEN @ + 1 ELSE @]
             ELSE [trigger EXCEPT !.state = "armed", !.arms = 1,
                       !.saved = ram[MagicKeyPos(updatedLUFAbootloader)],
                       !.ever = TRUE]
        ELSE IF trigger.state = "armed"
             THEN [trigger EXCEPT !.state = "disarmed"]
             ELSE [trigger EXCEPT !.state = "idle", !.arms = 0]

\* Line 281-284, called by the class driver from the USB task of line 141
\* when the host has set the control lines; the task then returns and the
\* next iteration begins.
EVENT_CDC_Device_ControLineStateChanged ==
    /\ pc = "USBTask"
    /\ lePc = "idle"
    /\ ctlCount < ctlLimit
    /\ \E lines \in ControlLines :
        /\ HostToDevice' = lines
        /\ handleResetToBootloader(BaudRateBPS, lines)
    /\ pc' = "Receive"
    /\ flush' = NoFlush
    /\ UNCHANGED <<ReceivedByte, BufferCount, cmpRead, ringVars,
                   USB_DeviceState, UCSR1B, updatedLUFAbootloader,
                   BaudRateBPS, usartVars, accepted, sent, rxCounts,
                   sendErrors, egressVars, limits>>

\* Line 296-320: the frame format bits of UCSR1C for a line encoding.
ConfigMaskOf(enc) ==
    (CASE enc.ParityType = "Odd" -> {"UPM11", "UPM10"}
       [] enc.ParityType = "Even" -> {"UPM11"}
       [] OTHER -> {})
    \cup (IF enc.CharFormat = "TwoStopBits" THEN {"USBS1"} ELSE {})
    \cup (CASE enc.DataBits = 6 -> {"UCSZ10"}
            [] enc.DataBits = 7 -> {"UCSZ11"}
            [] enc.DataBits = 8 -> {"UCSZ11", "UCSZ10"}
            [] OTHER -> {})

\* Line 331: the divisor of the double-speed USART for a baud rate; its
\* value depends on F_CPU, a parameter of the build.
SERIAL_2X_UBBRVAL(baud) == <<"2X", baud>>

\* Mutant of LineEncodingHold: the TX line is not held high.
LineEncodingHold_NoHold ==
    /\ pc = "USBTask"
    /\ lePc = "idle"
    /\ ctlCount < ctlLimit
    /\ \E enc \in LineEncodings :
        /\ BaudRateBPS' = enc.BaudRateBPS
        /\ handleResetToBootloader(enc.BaudRateBPS, HostToDevice)
        /\ ConfigMask' = ConfigMaskOf(enc)
    /\ lePc' = "Off"
    /\ UNCHANGED <<mainVars, ringVars, USB_DeviceState, UCSR1B,
                   updatedLUFAbootloader, HostToDevice, PORTD3, UCSR1A,
                   UCSR1C, UBRR1, histVars, egressVars, limits>>

\* Line 290-340 runs in the USB task of line 141, with interrupts enabled:
\* the RX interrupt may run between its register writes.
\* Line 292-323: the trigger, the frame format, then the TX line held high.
LineEncodingHold ==
    /\ pc = "USBTask"
    /\ lePc = "idle"
    /\ ctlCount < ctlLimit
    /\ \E enc \in LineEncodings :
        /\ BaudRateBPS' = enc.BaudRateBPS
        /\ handleResetToBootloader(enc.BaudRateBPS, HostToDevice)
        /\ ConfigMask' = ConfigMaskOf(enc)
    /\ PORTD3' = TRUE
    /\ lePc' = "Off"
    /\ UNCHANGED <<mainVars, ringVars, USB_DeviceState, UCSR1B,
                   updatedLUFAbootloader, HostToDevice, UCSR1A, UCSR1C,
                   UBRR1, histVars, egressVars, limits>>

\* The registers the trigger owns, which the USART reconfiguration leaves.
triggerVars == <<updatedLUFAbootloader, ram, BaudRateBPS, HostToDevice,
                 wdtEnabled, ctlCount, trigger>>

\* Line 326-328: the USART is switched off.
LineEncodingOff ==
    /\ lePc = "Off"
    /\ UCSR1B' = {}
    /\ UCSR1A' = {}
    /\ UCSR1C' = {}
    /\ lePc' = "Baud"
    /\ UNCHANGED <<mainVars, ringVars, USB_DeviceState, triggerVars, PORTD3,
                   UBRR1, ConfigMask, histVars, egressVars, limits>>

\* Line 331: the baud rate divisor.
LineEncodingBaud ==
    /\ lePc = "Baud"
    /\ UBRR1' = SERIAL_2X_UBBRVAL(BaudRateBPS)
    /\ lePc' = "Config"
    /\ UNCHANGED <<mainVars, ringVars, USB_DeviceState, triggerVars, PORTD3,
                   UCSR1A, UCSR1B, UCSR1C, ConfigMask, histVars, egressVars,
                   limits>>

\* Line 334-335: the frame format and double-speed mode.
LineEncodingConfig ==
    /\ lePc = "Config"
    /\ UCSR1C' = ConfigMask
    /\ UCSR1A' = {"U2X1"}
    /\ lePc' = "On"
    /\ UNCHANGED <<mainVars, ringVars, USB_DeviceState, triggerVars, PORTD3,
                   UCSR1B, UBRR1, ConfigMask, histVars, egressVars, limits>>

\* Line 336: receiver, transmitter and RX interrupt on.
LineEncodingOn ==
    /\ lePc = "On"
    /\ UCSR1B' = UsartOn
    /\ lePc' = "Release"
    /\ UNCHANGED <<mainVars, ringVars, USB_DeviceState, triggerVars, PORTD3,
                   UCSR1A, UCSR1C, UBRR1, ConfigMask, histVars, egressVars,
                   limits>>

\* Line 339: the TX line is released; the handler and the USB task return
\* and the next iteration begins.
LineEncodingRelease ==
    /\ lePc = "Release"
    /\ PORTD3' = FALSE
    /\ lePc' = "idle"
    /\ pc' = "Receive"
    /\ flush' = NoFlush
    /\ UNCHANGED <<ReceivedByte, BufferCount, cmpRead, ringVars,
                   USB_DeviceState, triggerVars, UCSR1A, UCSR1B, UCSR1C,
                   UBRR1, ConfigMask, accepted, sent, rxCounts, sendErrors,
                   egressVars, limits>>

\* Line 290-340: the driver has stored the new line encoding; after the
\* trigger the USART is switched off, reconfigured and switched on again
\* with receiver, transmitter and RX interrupt.
EVENT_CDC_Device_LineEncodingChanged ==
    \/ LineEncodingHold
    \/ LineEncodingOff
    \/ LineEncodingBaud
    \/ LineEncodingConfig
    \/ LineEncodingOn
    \/ LineEncodingRelease

\* ------------------------------------------------------------ environment
\* Timer 1 runs free at F_CPU/64 (line 157) and wraps at 2^16: between two
\* steps of the program it has moved on to some other value.
Tick ==
    /\ \E t \in TimerSamples \ {TCNT1} : TCNT1' = t
    /\ UNCHANGED <<mainVars, USARTtoUSB_Buffer, USART_Timeout,
                   USB_DeviceState, bootVars, histVars, egressVars, limits>>

\* The USB stack moves the device in and out of the configured state.
USBDeviceStateChange ==
    /\ USB_DeviceState' =
            IF USB_DeviceState = "Configured" THEN "Unattached" ELSE "Configured"
    /\ UNCHANGED <<mainVars, ringVars, bootVars, histVars, egressVars,
                   limits>>

Next ==
    \/ MainReceive
    \/ MainWaitSend
    \/ MainSerialSend
    \/ MainGetCount
    \/ MainFlushTest
    \/ MainFlushDecide
    \/ MainSelectEndpoint
    \/ MainWhile
    \/ MainSendByte
    \/ MainRemove
    \/ MainUSBTask
    \/ ISR_USART1_RX
    \/ EVENT_CDC_Device_ControLineStateChanged
    \/ EVENT_CDC_Device_LineEncodingChanged
    \/ Tick
    \/ USBDeviceStateChange

\* The relay under a full UART input stream and a short control dialogue.
Spec == Init /\ [][Next]_vars

\* The trigger under a long control dialogue, any startup RAM contents and
\* either bootloader generation, with a short UART input stream.
SpecBoot == InitBoot /\ [][Next]_vars

\* The USB -> UART relay under a recorded stream of host bytes.
SpecEgress == InitEgress /\ [][Next]_vars

\* The steps of main() and of the handler that runs inside its USB task.
MainLoop ==
    \/ MainReceive
    \/ MainWaitSend
    \/ MainSerialSend
    \/ MainGetCount
    \/ MainFlushTest
    \/ MainFlushDecide
    \/ MainSelectEndpoint
    \/ MainWhile
    \/ MainSendByte
    \/ MainRemove
    \/ MainUSBTask
    \/ LineEncodingOff
    \/ LineEncodingBaud
    \/ LineEncodingConfig
    \/ LineEncodingOn
    \/ LineEncodingRelease

\* Timer 1 counts up: between an RX interrupt that reset it and the flush
\* tests that follow, it does not wrap (2^16 ticks of 4 us).
TimerRuns == Tick /\ TCNT1' > TCNT1

NextLive ==
    \/ MainLoop
    \/ ISR_USART1_RX
    \/ EVENT_CDC_Device_ControLineStateChanged
    \/ LineEncodingHold
    \/ TimerRuns
    \/ USBDeviceStateChange

\* The UART stream is endless and send errors are without limit.
InitLive == InitWith(0, MaxCtl, 0, {0}, {0}, {FALSE})

\* The main loop keeps iterating: it takes its next step, the host's stream
\* pauses again and again (line 112 breaks out of the egress loop), and the
\* UART becomes transmit-ready.  The timer keeps advancing.  The IN endpoint
\* is ready and a send succeeds again and again when asked.
Fairness ==
    /\ WF_vars(MainLoop)
    /\ SF_vars(MainReceive /\ pc' = "GetCount")
    /\ WF_vars(TimerRuns)
    /\ SF_vars(MainSelectEndpoint /\ pc' = "While")
    /\ SF_vars(MainSendByte /\ pc' = "Remove")

\* The relay under an endless UART stream, with the main loop, the timer and
\* the USB side making progress.
SpecLive == InitLive /\ [][NextLive]_vars /\ Fairness

\* ================================================================== claims
IsPrefix(s, t) == Len(s) <= Len(t) /\ \A i \in 1..Len(s) : s[i] = t[i]

\* The bytes still owed to the host: the buffer's contents, less the head
\* byte while it has been sent but not yet removed (between lines 130, 135).
Unsent ==
    LET c == Contents(USARTtoUSB_Buffer)
    IN  IF pc = "Remove" /\ Len(c) > 0 THEN Tail(c) ELSE c

\* C1 - UART-to-host ordering: at every moment, under every interleaving of
\* the RX interrupt with the main loop's flush attempts, not-ready skips and
\* send failures, the bytes handed successfully to the USB send primitive
\* are a prefix of the bytes the interrupt accepted, and the accepted bytes
\* not yet sent are exactly the buffered ones, in order: nothing reordered,
\* duplicated or skipped.
UartToHostOrder ==
    /\ IsPrefix(sent, accepted)
    /\ accepted = sent \o Unsent

\* C1 witness: a flush that the interrupt interleaved with and that a send
\* error cut short, after bytes have been delivered and with bytes waiting.
UartToHostOrderWitness ==
    /\ flush.state = "failed"
    /\ flush.rx
    /\ Len(sent) >= 1
    /\ Len(accepted) >= Len(sent) + 2

\* The cursors and the count are in range and agree with one another.
BufferInBounds ==
    /\ USARTtoUSB_Buffer.Count \in 0..BufferSize
    /\ USARTtoUSB_Buffer.In \in 0..(BufferSize - 1)
    /\ USARTtoUSB_Buffer.Out \in 0..(BufferSize - 1)

\* C5 - Buffer bounds and no overwrite: in every reachable state the count
\* is within 0..capacity and both cursors are within [0, capacity); an RX
\* interrupt that finds the buffer full drops its byte and leaves the buffer
\* (data, cursors, count) and the accepted bytes as they were.
BufferBoundsNoOverwrite ==
    /\ []BufferInBounds
    /\ [][(uartRx' = uartRx + 1 /\ USARTtoUSB_Buffer.Count = BufferSize)
            => /\ USARTtoUSB_Buffer' = USARTtoUSB_Buffer
               /\ accepted' = accepted]_vars

\* C5 witness: the buffer is full of the first bytes of the stream, none of
\* them sent, and one more byte has arrived and was dropped.
BufferBoundsWitness ==
    /\ USARTtoUSB_Buffer.Count = BufferSize
    /\ Len(accepted) = BufferSize
    /\ Len(sent) = 0
    /\ uartRx = BufferSize + 1

\* C6 - Partial flush on failure: when a flush started with m buffered bytes
\* (flush.snap), k sends succeeded, send k+1 reported an error and no UART
\* byte arrived during the flush, the buffer holds exactly the last m-k
\* bytes of the original order, its head being byte k+1.
PartialFlushOnFailure ==
    (flush.state = "failed" /\ ~flush.rx) =>
        /\ flush.k < Len(flush.snap)
        /\ USARTtoUSB_Buffer.Count = Len(flush.snap) - flush.k
        /\ Contents(USARTtoUSB_Buffer) =
                SubSeq(flush.snap, flush.k + 1, Len(flush.snap))
        /\ RingBuffer_Peek(USARTtoUSB_Buffer) = flush.snap[flush.k + 1]

\* C6 witness: a flush of 3 bytes failed at its second send.
PartialFlushWitness ==
    /\ flush.state = "failed"
    /\ ~flush.rx
    /\ flush.k = 1
    /\ Len(flush.snap) = 3

\* C7 (as claimed) - Adaptive deadline value: whenever the RX interrupt
\* accepts a byte into a non-empty buffer, the flush deadline becomes exactly
\* 4 times the value the timer had at that moment.
DeadlineIsFourTimesTimer ==
    [][(Len(accepted') = Len(accepted) + 1 /\ USARTtoUSB_Buffer.Count > 0)
            => USART_Timeout' = 4 * TCNT1]_vars

\* C8 - Flush decision rule: the step of the main loop that decides the if
\* of line 119 goes on to select the IN endpoint if and only if
\* (count > 0 and timer >= deadline) or count > capacity / 2, where count is
\* the snapshot of line 118 and timer and deadline are the values read.
FlushDecisionRule ==
    [][(pc \in {"FlushTest", "ReadTimeout", "ReadTimer"}
            /\ pc' \in {"Select", "USBTask"})
        => LET timer == IF pc = "ReadTimeout" THEN cmpRead ELSE TCNT1
               deadline == IF pc = "ReadTimer" THEN cmpRead ELSE USART_Timeout
           IN  (pc' = "Select") <=>
                    \/ (BufferCount > 0 /\ timer >= deadline)
                    \/ BufferCount > BufferSize \div 2]_vars

\* C8 witness: the endpoint is selected on a more-than-half-full snapshot
\* while the timer is below the deadline.
FlushDecisionWitness ==
    /\ pc = "Select"
    /\ BufferCount = (BufferSize \div 2) + 1
    /\ TCNT1 < USART_Timeout

\* C9 - Ingress discard has no side effects: an RX interrupt that finds the
\* device not configured or the buffer full leaves the buffer, the count,
\* the flush deadline, the timer and the accepted bytes unchanged.
IngressDiscardNoEffect ==
    [][(uartRx' = uartRx + 1
            /\ (\/ USB_DeviceState # "Configured"
                \/ USARTtoUSB_Buffer.Count = BufferSize))
        => /\ UNCHANGED <<USARTtoUSB_Buffer, USART_Timeout, TCNT1>>
           /\ accepted' = accepted]_vars

\* C9 witness: bytes were discarded, with the timer running and a deadline
\* armed, both while unconfigured and at a full buffer.
IngressDiscardWitness ==
    /\ uartRx >= Len(accepted) + 1
    /\ USB_DeviceState # "Configured"
    /\ Len(accepted) >= 2
    /\ TCNT1 > 0
    /\ USART_Timeout > 0

\* C10 - Endpoint not ready defers the flush: the step that finds the IN
\* endpoint not ready goes straight to the USB tasks without a send attempt
\* and without removing anything, and the byte offered by any send attempt
\* is the oldest accepted byte not yet sent, so the same head byte is
\* offered on a later iteration.
NotReadyDefersFlush ==
    /\ [](pc = "SendByte" =>
            /\ USARTtoUSB_Buffer.Count > 0
            /\ Len(accepted) > Len(sent)
            /\ RingBuffer_Peek(USARTtoUSB_Buffer) = accepted[Len(sent) + 1])
    /\ [][(flush'.state = "notready" /\ flush.state # "notready")
            => /\ pc' = "USBTask"
               /\ USARTtoUSB_Buffer' = USARTtoUSB_Buffer
               /\ sent' = sent
               /\ sendErrors' = sendErrors]_vars

\* C10 witness: the flush was skipped with two bytes waiting.
NotReadyWitness ==
    /\ flush.state = "notready"
    /\ USARTtoUSB_Buffer.Count >= 2

\* C2 (as claimed) - Magic-key invariant: after any notifications, on either
\* storage-location path, the word at the selected location is the magic key
\* if and only if the most recent notification saw the trigger baud rate
\* with DTR low, provided the location did not hold the key at startup.
MagicKeyIffTriggered ==
    LET pos == MagicKeyPos(updatedLUFAbootloader)
    IN  (ctlCount > 0 /\ trigger.ram0[pos] # MAGIC_KEY) =>
            (ram[pos] = MAGIC_KEY
                <=> (BaudRateBPS = BOOT_BAUD /\ HostToDevice % 2 = 0))

\* C3 (as claimed) - Disarm inverts arming: on the legacy path, after one or
\* more consecutive arming notifications and then a disarming one, the word
\* at the magic-key location is the one it held before the first arming.
DisarmRestoresKey ==
    (~updatedLUFAbootloader /\ trigger.state = "disarmed") =>
        ram["MAGIC_KEY_POS"] = trigger.saved

\* C4 - Watchdog state tracks the latest notification: once a notification
\* has been handled the watchdog is armed if and only if the most recent one
\* saw the trigger baud rate with DTR low, and every step that is not a
\* notification (main loop, RX interrupt, timer, USB state) leaves it alone.
WatchdogTracksNotification ==
    /\ [](ctlCount > 0 =>
            (wdtEnabled <=> (BaudRateBPS = BOOT_BAUD /\ HostToDevice % 2 = 0)))
    /\ [][ctlCount' = ctlCount => wdtEnabled' = wdtEnabled]_vars

\* C4 witness: the watchdog is armed after an arm, a disarm and an arm
\* again, and stayed armed while a UART byte went through to the host.
WatchdogWitness ==
    /\ wdtEnabled
    /\ ctlCount >= 3
    /\ trigger.arms = 1
    /\ Len(sent) = 1

\* C11 - Host-to-UART relay order: whatever pattern of "byte" and "no byte"
\* CDC_Device_ReceiveByte reports across main-loop iterations, the bytes
\* written to the UART data register are the bytes the USB layer returned,
\* in order, none skipped or duplicated (the only byte returned and not yet
\* written is the one main() holds while it waits for the UART), and every
\* write follows a transmit-ready report of the UART.
HostToUartOrder ==
    /\ [](usbRx = uartTx \o (IF pc \in {"WaitSend", "SerialSend"}
                             THEN <<ReceivedByte>> ELSE <<>>))
    /\ [][Len(uartTx') > Len(uartTx)
            => (sendReady /\ uartTx' = Append(uartTx, usbRx[Len(usbRx)]))]_vars

\* C11 witness: three host bytes were relayed, with a UART byte flushed to
\* the host in an iteration in between.
HostToUartWitness ==
    /\ uartTx = <<HostByte(1), HostByte(2), HostByte(3)>>
    /\ usbRx = uartTx
    /\ Len(sent) = 1

\* C15 - UART reconfiguration ordering: from the first register write of the
\* line-encoding handler to its last the TX line is held high; the USART is
\* off while the baud divisor and the frame format are written; every change
\* of UCSR1B, UBRR1 or UCSR1C happens under the hold; the hold is released
\* only with receiver, transmitter and RX interrupt on; and whenever the
\* handler has run and is not running, the hold is released and the USART
\* is enabled.
UartReconfigOrdering ==
    /\ [](lePc \in {"Off", "Baud", "Config", "On", "Release"} => PORTD3)
    /\ [](lePc \in {"Baud", "Config", "On"} => UCSR1B = {})
    /\ [][(UCSR1B' # UCSR1B \/ UBRR1' # UBRR1 \/ UCSR1C' # UCSR1C)
            => (PORTD3 /\ PORTD3')]_vars
    /\ [][(PORTD3 /\ ~PORTD3')
            => (UCSR1B = UsartOn /\ UCSR1B' = UsartOn /\ lePc' = "idle")]_vars
    /\ []((lePc = "idle" /\ BaudRateBPS # 0)
            => (~PORTD3 /\ UCSR1B = UsartOn /\ UCSR1C = ConfigMask
                /\ UBRR1 = SERIAL_2X_UBBRVAL(BaudRateBPS)))

\* C15 witness: a second reconfiguration, to 9600 baud 7E2, has written the
\* divisor with the USART off and the line held, after the first one let a
\* UART byte in.
UartReconfigWitness ==
    /\ lePc = "Config"
    /\ ctlCount >= 2
    /\ PORTD3
    /\ UCSR1B = {}
    /\ UBRR1 = SERIAL_2X_UBBRVAL(9600)
    /\ uartRx = 1

\* C13 - Count after N arrivals: as long as nothing has been removed (no
\* byte sent yet), the buffer count is min(N, capacity), N being the number
\* of UART bytes that arrived while the device was configured; and from any
\* count, one more arrival while configured makes it min(count + 1,
\* capacity).
CountAfterArrivals ==
    /\ [](Len(sent) = 0 =>
            USARTtoUSB_Buffer.Count =
                IF rxConfigured < BufferSize THEN rxConfigured ELSE BufferSize)
    /\ [][(uartRx' = uartRx + 1 /\ USB_DeviceState = "Configured")
            => USARTtoUSB_Buffer'.Count =
                    IF USARTtoUSB_Buffer.Count + 1 < BufferSize
                    THEN USARTtoUSB_Buffer.Count + 1 ELSE BufferSize]_vars

\* C13 witness: one byte more than the capacity arrived while configured and
\* nothing was removed.
CountAfterArrivalsWitness ==
    /\ rxConfigured = BufferSize + 1
    /\ USARTtoUSB_Buffer.Count = BufferSize
    /\ Len(sent) = 0
    /\ pc # "Remove"

\* C14 (as claimed) - Disarm while idle is a no-op on the key location: on
\* the legacy path, as long as no notification has armed the trigger since
\* startup, the word at MAGIC_KEY_POS is the one it held at startup,
\* whatever RAMEND-1 holds.
DisarmWhileIdleKeepsKey ==
    (~updatedLUFAbootloader /\ ~trigger.ever) =>
        ram["MAGIC_KEY_POS"] = trigger.ram0["MAGIC_KEY_POS"]

\* C16 - Peek and remove are never applied to an empty buffer: whenever the
\* flush loop is about to peek (line 130) or to remove (line 135), under any
\* interleaving of the RX interrupt, the buffer holds at least the byte in
\* hand and the rest of the snapshot still to go, so its count is positive.
PeekRemoveNonEmpty ==
    pc \in {"SendByte", "Remove"} =>
        /\ USARTtoUSB_Buffer.Count >= 1
        /\ USARTtoUSB_Buffer.Count <= BufferSize
        /\ USARTtoUSB_Buffer.Count >= BufferCount + 1

\* C16 witness: the loop is about to remove the last byte of its snapshot
\* while the interrupt has put further bytes behind it during the flush.
PeekRemoveWitness ==
    /\ pc = "Remove"
    /\ BufferCount = 0
    /\ flush.rx
    /\ flush.k = 2
    /\ USARTtoUSB_Buffer.Count = 2

\* C17 - A flush is bounded by its snapshot: a flush that started on the
\* snapshot n of line 118 has made at most n send attempts (k successes and
\* at most one failure), with n - k iterations left while it runs, whatever
\* the RX interrupt inserted meanwhile; when the loop has run out, exactly n
\* bytes were sent and the buffer holds what was there beyond the snapshot
\* plus every byte accepted during the flush; a finished or broken-off
\* flush is at the USB tasks.
FlushBoundedBySnapshot ==
    flush.state \in {"active", "failed", "done"} =>
        /\ flush.k + (IF flush.state = "failed" THEN 1 ELSE 0) <= flush.n
        /\ (flush.state = "active" /\ pc = "While") =>
                BufferCount = flush.n - flush.k
        /\ (flush.state = "active" /\ pc = "SendByte") =>
                BufferCount = flush.n - flush.k - 1
        /\ flush.state = "active" => pc \in {"While", "SendByte", "Remove"}
        /\ flush.state \in {"failed", "done"} => pc = "USBTask"
        /\ flush.state = "done" =>
            /\ flush.k = flush.n
            /\ USARTtoUSB_Buffer.Count =
                    Len(flush.snap) - flush.n + (Len(accepted) - flush.acc0)

\* C17 witness: a flush on a snapshot of one byte has ended after one send
\* although the interrupt inserted two more bytes around and during it;
\* both are still buffered.
FlushBoundedWitness ==
    /\ flush.state = "done"
    /\ flush.n = 1
    /\ flush.rx
    /\ Len(flush.snap) = 2
    /\ USARTtoUSB_Buffer.Count = 2

\* C18 - First byte of a burst does not rearm the deadline: the RX interrupt
\* that accepts a byte into an empty buffer resets the timer to zero and
\* inserts the byte as the only one, and leaves USART_Timeout as it was;
\* that value is 0 until some byte has been accepted into a non-empty
\* buffer.
FirstByteKeepsDeadline ==
    /\ [][(Len(accepted') = Len(accepted) + 1 /\ USARTtoUSB_Buffer.Count = 0)
            => /\ USART_Timeout' = USART_Timeout
               /\ TCNT1' = 0
               /\ USARTtoUSB_Buffer'.Count = 1
               /\ RingBuffer_Peek(USARTtoUSB_Buffer')
                    = accepted'[Len(accepted')]]_vars
    /\ [](Len(accepted) <= 1 => USART_Timeout = 0)

\* C18 witness: after a burst of two bytes armed the deadline and was
\* flushed, the third byte has entered the empty buffer with the timer
\* running and the deadline of the earlier burst still in place.
FirstByteWitness ==
    /\ Len(accepted) = 3
    /\ Len(sent) = 2
    /\ USARTtoUSB_Buffer.Count = 1
    /\ pc = "GetCount"
    /\ TCNT1 = 0
    /\ USART_Timeout = 4

\* C19 - Updated-bootloader path isolation: when the flag resolved at
\* startup selects RAMEND-1, no step changes the word at the legacy
\* location 0x0800, which keeps its startup value through every sequence of
\* notifications, and whenever the latest notification was a disarming one
\* the word at RAMEND-1 is 0x0000.
UpdatedPathIsolation ==
    /\ [](updatedLUFAbootloader =>
            ram["MAGIC_KEY_POS"] = trigger.ram0["MAGIC_KEY_POS"])
    /\ [][updatedLUFAbootloader =>
            ram'["MAGIC_KEY_POS"] = ram["MAGIC_KEY_POS"]]_vars
    /\ []((/\ updatedLUFAbootloader
           /\ ctlCount > 0
           /\ ~(BaudRateBPS = BOOT_BAUD /\ HostToDevice % 2 = 0))
            => ram["RAMEND_1"] = 0)

\* C19 witness: with the flag set, the trigger was armed twice and then
\* disarmed; RAMEND-1, which held another word at startup, is zero and the
\* legacy location still holds its startup word.
UpdatedPathWitness ==
    /\ updatedLUFAbootloader
    /\ trigger.state = "disarmed"
    /\ trigger.arms = 2
    /\ trigger.ram0["RAMEND_1"] = 4660
    /\ ram["RAMEND_1"] = 0
    /\ ram["MAGIC_KEY_POS"] = 4660

====
